---- MODULE Spec2Model ----
(***************************************************************************)
(* A model of the safe-path crate: SafePathBuf (src/src/safe_path_buf.rs), *)
(* SafeDirBuilder (src/src/safe_dir_builder.rs) and open_by_path           *)
(* (src/src/lib.rs), running against a small Linux filesystem: a tree of   *)
(* directories, files and symbolic links, a descriptor table and the       *)
(* /proc/self/fd aliases.  Every system call of the library is one step,   *)
(* so that another process can change the filesystem between two of them.  *)
(* safe_join lives in src/safe_join.rs, which is not part of the sources   *)
(* at hand; it is modelled from section 4.1 of the specification.          *)
(***************************************************************************)
EXTENDS Integers, Sequences, FiniteSets, TLC

VARIABLES
    fs,       \* the filesystem: real path -> entry
    fds,      \* the process's descriptor table: fd number -> entry it is bound to
    builder,  \* the SafeDirBuilder: [root, mode, recursive]
    pc,       \* the position of the calling thread
    call,     \* the API call in progress (or the last one): its arguments
    path,     \* create: the result of safe_join("/", path)
    root,     \* create: the local `root`, the accumulated path
    suffix,   \* create: the components still to be walked
    file,     \* create: the SafePathBuf `file` of the current loop iteration
    fp,       \* from_path: its frame [p, fd, ret]
    res,      \* the value the last API call returned
    held,     \* the SafePathBufs the caller owns
    fs0,      \* the filesystem when the call in progress started
    made,     \* the real paths of the directories the call in progress made
    calls,    \* the number of API calls started
    atk       \* the number of steps the concurrent process has taken

vars == <<fs, fds, builder, pc, call, path, root, suffix, file, fp, res, held,
          fs0, made, calls, atk>>

----------------------------------------------------------------------------
(* Bounds of the model. *)

\* API calls (new, from_path, create) the calling thread makes in one run.
MaxCalls == 2
\* Steps the concurrent process takes in one run.
MaxAttack == 2
\* Steps the concurrent process takes on the final path in one run of
\* SpecSwap: directory -> file -> directory is two removals and two creations.
MaxSwap == 4
\* Symbolic links the kernel follows in one lookup before ELOOP (Linux: 40).
MaxFollow == 3
\* Symbolic links safe_join expands in one resolution before it fails.
MaxSymlinks == 3

----------------------------------------------------------------------------
(* Program constants. *)

DIRECTORY_MODE_DEFAULT == 448      \* 0o700
DIRECTORY_MODE_MASK == 511         \* 0o777

----------------------------------------------------------------------------
(* Sequences as paths. *)

Front(s) == SubSeq(s, 1, Len(s) - 1)
Last(s) == s[Len(s)]

\* Path::starts_with / the success of Path::strip_prefix.
IsPrefix(p, q) == Len(p) <= Len(q) /\ SubSeq(q, 1, Len(p)) = p

\* A strip_prefix that keeps the last component of the prefix.
strip_prefix_from_last(q, p) == SubSeq(q, Len(p), Len(q))

\* Path::strip_prefix, where it succeeds.
strip_prefix(q, p) == SubSeq(q, Len(p) + 1, Len(q))

\* All the non-empty prefixes of p longer than k components.
Levels(p, k) == { SubSeq(p, 1, i) : i \in (k + 1) .. Len(p) }

----------------------------------------------------------------------------
(* Filesystem entries. *)

NoTgt == [abs |-> FALSE, comps |-> <<>>]
Dir(i, m) == [id |-> i, kind |-> "dir", mode |-> m, data |-> "", tgt |-> NoTgt]
RegFile(i, d) == [id |-> i, kind |-> "file", mode |-> 420, data |-> d, tgt |-> NoTgt]
Link(i, a, t) == [id |-> i, kind |-> "link", mode |-> 511, data |-> "",
                  tgt |-> [abs |-> a, comps |-> t]]

SetMax(S) == CHOOSE x \in S : \A y \in S : y <= x

\* The inode number a new entry gets: one no entry and no descriptor has.
FreshId(f, fdt) ==
    1 + SetMax({f[p].id : p \in DOMAIN f} \cup {fdt[n].id : n \in DOMAIN fdt})

\* The lowest free descriptor number, as open(2) hands it out.
FreshFd(fdt) == CHOOSE n \in 3 .. (3 + Cardinality(DOMAIN fdt)) :
                    /\ n \notin DOMAIN fdt
                    /\ \A m \in 3 .. (n - 1) : m \in DOMAIN fdt

\* A close that leaves the descriptor open.
CloseFdLeak(fdt, n) == fdt

\* The table without descriptor n (close(2)).
CloseFd(fdt, n) == [m \in (DOMAIN fdt) \ {n} |-> fdt[m]]

\* The filesystem without the entry at p.
Without(f, p) == [q \in (DOMAIN f) \ {p} |-> f[q]]

\* Whether the entry named p itself (not what it points to) is a link.
IsLinkAt(f, p) == p \in DOMAIN f /\ f[p].kind = "link"

HasChildren(f, p) == \E q \in DOMAIN f : Len(q) = Len(p) + 1 /\ IsPrefix(p, q)

----------------------------------------------------------------------------
(* The kernel's path lookup. *)

Found(p) == [err |-> "", path |-> p]
Failed(e) == [err |-> e, path |-> <<>>]

\* Walk comps from the directory cur, following every symbolic link (the
\* last one too, as open without O_NOFOLLOW does), at most MaxFollow of them.
RECURSIVE KWalk(_, _, _, _)
KWalk(f, cur, comps, n) ==
    IF comps = <<>> THEN Found(cur)
    ELSE IF f[cur].kind # "dir" THEN Failed("ENOTDIR")
    ELSE LET c == Head(comps)
             rest == Tail(comps)
             t == Append(cur, c)
         IN  IF c = "." THEN KWalk(f, cur, rest, n)
             ELSE IF c = ".."
                  THEN KWalk(f, IF cur = <<>> THEN cur ELSE Front(cur), rest, n)
             ELSE IF t \notin DOMAIN f THEN Failed("ENOENT")
             ELSE IF f[t].kind = "link"
                  THEN IF n >= MaxFollow THEN Failed("ELOOP")
                       ELSE KWalk(f, IF f[t].tgt.abs THEN <<>> ELSE cur,
                                  f[t].tgt.comps \o rest, n + 1)
             ELSE KWalk(f, t, rest, n)

\* The real path an absolute path names, or the lookup's error.
RealPath(f, p) == KWalk(f, <<>>, p, 0)

\* Path::exists in the place of Path::is_dir.
PathExists(f, p) == RealPath(f, p).err = ""

\* Path::is_dir: stat by name, following links; any error is "no".
PathIsDir(f, p) ==
    LET r == RealPath(f, p) IN r.err = "" /\ f[r.path].kind = "dir"

\* What read_link("/proc/self/fd/N") reports for an open entry: where the
\* entry is now, or a name no path of the program equals once it is unlinked.
Deleted == <<"(deleted)">>
DPath(f, e) ==
    IF \E p \in DOMAIN f : f[p].id = e.id
    THEN CHOOSE p \in DOMAIN f : f[p].id = e.id
    ELSE Deleted

ProcPath(n) == <<"proc", "self", "fd", ToString(n)>>

----------------------------------------------------------------------------
(* safe_join(root, unsafe_path): the path resolver, section 4.1. *)

\* A walk that, at the bound, returns the path it has reached so far.
RECURSIVE ResolveTruncating(_, _, _, _, _)
ResolveTruncating(f, R, work, comps, count) ==
    IF comps = <<>> THEN Found(work)
    ELSE LET c == Head(comps)
             rest == Tail(comps)
             t == Append(work, c)
         IN  IF c = "." THEN ResolveTruncating(f, R, work, rest, count)
             ELSE IF c = ".."
                  THEN ResolveTruncating(f, R, IF work = R THEN R
                                               ELSE Front(work), rest, count)
             ELSE IF t \in DOMAIN f /\ f[t].kind = "link"
                  THEN IF count + 1 > MaxSymlinks THEN Found(t)
                       ELSE ResolveTruncating(f, R,
                                IF f[t].tgt.abs THEN R ELSE work,
                                f[t].tgt.comps \o rest, count + 1)
             ELSE ResolveTruncating(f, R, t, rest, count)

\* Step 3: walk the candidate's components from the working path `work`,
\* never leaving R; `count` is the number of symbolic links expanded so far.
RECURSIVE Resolve(_, _, _, _, _)
Resolve(f, R, work, comps, count) ==
    IF comps = <<>> THEN Found(work)
    ELSE LET c == Head(comps)
             rest == Tail(comps)
             t == Append(work, c)
         IN  IF c = "." THEN Resolve(f, R, work, rest, count)
             ELSE IF c = ".."
                  THEN Resolve(f, R, IF work = R THEN R ELSE Front(work),
                               rest, count)
             ELSE IF t \in DOMAIN f /\ f[t].kind = "link"
                  THEN IF count + 1 > MaxSymlinks THEN Failed("ELOOP")
                       ELSE Resolve(f, R, IF f[t].tgt.abs THEN R ELSE work,
                                    f[t].tgt.comps \o rest, count + 1)
             ELSE Resolve(f, R, t, rest, count)

\* safe_join without the root as the boundary of the walk: ".." and
\* absolute link targets are taken as the kernel takes them.
safe_join_unclamped(f, R, cand) ==
    LET canon == RealPath(f, R)
    IN  IF canon.err # "" THEN Failed(canon.err)
        ELSE IF f[canon.path].kind # "dir" THEN Failed("ENOTDIR")
        ELSE Resolve(f, <<>>, canon.path, cand, 0)

\* Steps 1, 2 and 4: canonicalize the root, which must be a directory, and
\* walk the candidate from it.  A leading separator of the candidate is
\* dropped with the empty components: a candidate is its components.
safe_join(f, R, cand) ==
    LET canon == RealPath(f, R)
    IN  IF canon.err # "" THEN Failed(canon.err)
        ELSE IF f[canon.path].kind # "dir" THEN Failed("ENOTDIR")
        ELSE Resolve(f, canon.path, canon.path, cand, 0)

----------------------------------------------------------------------------
(* std::fs::DirBuilder, as SafeDirBuilder::create configures it. *)

MkResult(e, f, m) == [err |-> e, fs |-> f, made |-> m]

\* mkdir(2): the parent is looked up following links, the last component is
\* not; the new directory gets the inode number id and the mode m.
mkdir(f, p, m, id) ==
    IF p = <<>> THEN MkResult("EEXIST", f, {})
    ELSE LET par == RealPath(f, Front(p))
             t == Append(par.path, Last(p))
         IN  IF par.err # "" THEN MkResult(par.err, f, {})
             ELSE IF f[par.path].kind # "dir" THEN MkResult("ENOTDIR", f, {})
             ELSE IF Last(p) \in {".", ".."} \/ t \in DOMAIN f
                  THEN MkResult("EEXIST", f, {})
             ELSE MkResult("", (t :> Dir(id, m)) @@ f, {t})

\* A create_dir_all that sets the mode of a directory it finds.
create_dir_all_chmod(f, p, m, fdt) ==
    IF PathIsDir(f, p)
    THEN MkResult("", [f EXCEPT ![RealPath(f, p).path].mode = m], {})
    ELSE mkdir(f, p, m, FreshId(f, fdt))

\* DirBuilder::new().mode(m).recursive(true).create(p), that is
\* create_dir_all: an existing directory is a success and is left as it is,
\* a missing parent is created first, with the same mode.  What it made
\* stays made when a later mkdir fails.
RECURSIVE create_dir_all(_, _, _, _)
create_dir_all(f, p, m, fdt) ==
    LET r1 == mkdir(f, p, m, FreshId(f, fdt))
    IN  IF r1.err = "" THEN r1
        ELSE IF r1.err # "ENOENT"
             THEN IF PathIsDir(f, p) THEN MkResult("", f, {}) ELSE r1
        ELSE IF p = <<>> THEN r1
        ELSE LET rp == create_dir_all(f, Front(p), m, fdt)
             IN  IF rp.err # "" THEN rp
                 ELSE LET r2 == mkdir(rp.fs, p, m, FreshId(rp.fs, fdt))
                      IN  IF r2.err = ""
                          THEN MkResult("", r2.fs, rp.made \cup r2.made)
                          ELSE IF PathIsDir(rp.fs, p)
                               THEN MkResult("", rp.fs, rp.made)
                               ELSE MkResult(r2.err, rp.fs, rp.made)

----------------------------------------------------------------------------
(* SafePathBuf. *)

NoHandle == [fd |-> 0, path |-> <<>>, target |-> <<>>,
             req |-> <<>>, ino |-> 0, data |-> ""]

\* The struct SafePathBuf {file, path, target}; req, ino and data record the
\* path from_path was given and the entry its descriptor was bound to.
SafePathBuf(n, link_path, p, e) ==
    [fd |-> n, path |-> ProcPath(n), target |-> link_path,
     req |-> p, ino |-> e.id, data |-> e.data]

\* SafePathBuf::target.
target(h) == h.target

\* An is_dir that says yes to everything.
is_dir_unchecked(f, h) == TRUE

\* SafePathBuf::is_dir: the target, looked up by name.
is_dir(f, h) == PathIsDir(f, target(h))

\* A SafePathBuf used as its target, the name, not as the alias.
DerefTarget(h) == h.target

\* Deref / AsRef<Path>: the path a SafePathBuf is used as.
Deref(h) == h.path

\* The entry a path names for the process: a /proc/self/fd/N alias names the
\* entry descriptor N is bound to, any other path is looked up by name.
NoEntry == [id |-> 0, kind |-> "none", mode |-> 0, data |-> "", tgt |-> NoTgt]
EntryAt(f, fdt, p) ==
    IF \E n \in DOMAIN fdt : p = ProcPath(n)
    THEN fdt[CHOOSE n \in DOMAIN fdt : p = ProcPath(n)]
    ELSE LET r == RealPath(f, p)
         IN  IF r.err = "" THEN f[r.path] ELSE NoEntry

\* fs::read_to_string(path).
read_to_string(f, fdt, p) == EntryAt(f, fdt, p).data

\* open_by_path: open(path, O_PATH | O_CLOEXEC); the entry the new
\* descriptor is bound to, or the error.
open_by_path(f, p) ==
    LET r == RealPath(f, p)
    IN  IF r.err # "" THEN [err |-> r.err, entry |-> NoEntry]
        ELSE [err |-> "", entry |-> f[r.path]]

----------------------------------------------------------------------------
(* SafeDirBuilder. *)

NoBuilder == [root |-> <<>>, mode |-> 0, recursive |-> FALSE]

\* A new that keeps the root as it was given, without canonicalize().
SafeDirBuilder_new_as_given(f, r) ==
    IF ~PathIsDir(f, r) THEN [err |-> "Invalid path", b |-> NoBuilder]
    ELSE [err |-> "",
          b |-> [root |-> r, mode |-> DIRECTORY_MODE_DEFAULT,
                 recursive |-> FALSE]]

\* SafeDirBuilder::new(root).
SafeDirBuilder_new(f, r) ==
    LET canon == RealPath(f, r)
    IN  IF canon.err # "" THEN [err |-> canon.err, b |-> NoBuilder]
        ELSE IF ~PathIsDir(f, canon.path)
             THEN [err |-> "Invalid path", b |-> NoBuilder]
        ELSE [err |-> "",
              b |-> [root |-> canon.path, mode |-> DIRECTORY_MODE_DEFAULT,
                     recursive |-> FALSE]]

\* A mode that stores its argument as it is.
mode_unmasked(m) == m

\* SafeDirBuilder::mode(mode): the stored mode, of a u32.
mode(m) == m % (DIRECTORY_MODE_MASK + 1)

----------------------------------------------------------------------------
(* The filesystems a run starts from: the fixtures of the crate's tests. *)

ROOT == <<"r">>

\* test_safe_dir_builder: the rootfs holds the file "txt"; "/o" stands for
\* the host's directories outside the rootfs.
FxBuilder ==
    (<<>> :> Dir(1, 493)) @@ (<<"r">> :> Dir(2, 493)) @@
    (<<"r", "txt">> :> RegFile(3, "test")) @@ (<<"o">> :> Dir(4, 493))

\* test_safe_dir_builder further on: "a" was created with 0o700 and holds
\* a file.
FxTree ==
    (<<>> :> Dir(1, 493)) @@ (<<"r">> :> Dir(2, 493)) @@
    (<<"r", "txt">> :> RegFile(3, "test")) @@ (<<"o">> :> Dir(4, 493)) @@
    (<<"r", "a">> :> Dir(5, DIRECTORY_MODE_DEFAULT)) @@
    (<<"r", "a", "txt">> :> RegFile(6, "test"))

\* test_safe_path_buf: symlink_dir/endpoint -> /endpoint ("d", "e" and "x"
\* here), beside links that point out of the rootfs.
FxLinks ==
    (<<>> :> Dir(1, 493)) @@ (<<"r">> :> Dir(2, 493)) @@
    (<<"o">> :> Dir(4, 493)) @@ (<<"x">> :> RegFile(5, "host")) @@
    (<<"r", "d">> :> Dir(6, 493)) @@
    (<<"r", "d", "e">> :> Link(7, TRUE, <<"x">>)) @@
    (<<"r", "x">> :> RegFile(8, "test")) @@
    (<<"r", "out">> :> Link(9, TRUE, <<"o">>)) @@
    (<<"r", "up">> :> Link(10, FALSE, <<"..", "..", "o">>))

\* test_safe_path_race: three files and the link s -> a.
FxRace ==
    (<<>> :> Dir(1, 493)) @@ (<<"r">> :> Dir(2, 493)) @@
    (<<"o">> :> Dir(4, 493)) @@
    (<<"r", "a">> :> RegFile(5, "a")) @@ (<<"r", "b">> :> RegFile(6, "b")) @@
    (<<"r", "c">> :> RegFile(7, "c")) @@
    (<<"r", "s">> :> Link(8, FALSE, <<"a">>))

\* A rootfs with an empty directory "a", as a create call leaves it.
FxEmptyDir ==
    (<<>> :> Dir(1, 493)) @@ (<<"r">> :> Dir(2, 493)) @@
    (<<"o">> :> Dir(4, 493)) @@
    (<<"r", "a">> :> Dir(5, DIRECTORY_MODE_DEFAULT))

\* The cycle a -> b, b -> a of the specification's section 8, beside a chain
\* of five links c1 -> c2 -> .. -> c5 -> f that ends at the file f.
FxLoop ==
    (<<>> :> Dir(1, 493)) @@ (<<"r">> :> Dir(2, 493)) @@
    (<<"r", "a">> :> Link(3, FALSE, <<"b">>)) @@
    (<<"r", "b">> :> Link(4, FALSE, <<"a">>)) @@
    (<<"r", "c1">> :> Link(5, FALSE, <<"c2">>)) @@
    (<<"r", "c2">> :> Link(6, FALSE, <<"c3">>)) @@
    (<<"r", "c3">> :> Link(7, FALSE, <<"c4">>)) @@
    (<<"r", "c4">> :> Link(8, FALSE, <<"c5">>)) @@
    (<<"r", "c5">> :> Link(9, FALSE, <<"f">>)) @@
    (<<"r", "f">> :> RegFile(10, "test"))

Fixtures == {FxBuilder, FxTree, FxLinks, FxRace}
RaceFixtures == {FxRace, FxEmptyDir}

\* The inputs of the API calls.
Roots == {ROOT, <<"r", "d">>}
NewCands == {<<"d", "e">>, <<"e">>, <<"s">>, <<"out", "z">>, <<"up">>, <<"a">>,
             <<"..", "..", "o">>, <<"d", "..", "..", "x">>}
CreateCands == {<<"r", "a">>, <<"r", "a", "b">>, <<"r", "a", "b", "c">>,
                <<"r", "txt">>, <<"r", "txt", "e">>, <<"r", "a", "txt", "h">>,
                <<"r", ".">>, <<"a">>, <<"r", "out", "z">>, <<"r", "d", "n">>}
FromPaths == {<<"r", "a">>, <<"r", "s">>, <<"r", "d", "e">>, <<"r", "x">>}
Modes == {2528}                           \* 0o4740, stored as 0o740

\* Candidates through the cycle and into the chain at every depth.
LoopCands == {<<"a">>, <<"b">>, <<"a", "f">>, <<"c1">>, <<"c2">>, <<"c3">>,
              <<"c4">>, <<"c5">>, <<"f">>, <<"c5", "..", "c1">>}
LoopFromPaths == {<<"r">>, <<"r", "a">>, <<"r", "c5">>, <<"r", "f">>}

\* The roots given to SafeDirBuilder::new: the rootfs, a link to a
\* directory, a file, a missing name and a directory under the rootfs.
BuilderRoots == {ROOT, <<"r", "out">>, <<"r", "txt">>, <<"r", "nope">>,
                 <<"r", "d">>}
\* The arguments of SafeDirBuilder::mode: 0, 0o740, 0o777, 0o1000, 0o4755,
\* 0o7777 and 2^31 - 1.
ModeInputs == {0, 480, 511, 512, 2541, 4095, 2147483647}

RaceNewCands == {<<"s">>, <<"a">>}
RaceCreateCands == {<<"r", "a", "b">>, <<"r", "b">>}
RaceFromPaths == {<<"r", "b">>}
\* from_path of a file, and of a link, whose real path differs.
FdFromPaths == {<<"r", "b">>, <<"r", "s">>}

\* The directory create is asked for where the concurrent process swaps the
\* entry, and the name it swaps.
SwapCreateCands == {<<"r", "b">>}
SwapPaths == {<<"r", "b">>}

\* What the concurrent process works on.
AtkPaths == {<<"r", "a">>, <<"r", "b">>}
AtkTargets == {[abs |-> FALSE, comps |-> <<"b">>],
               [abs |-> FALSE, comps |-> <<"c">>],
               [abs |-> TRUE, comps |-> <<"o">>]}

----------------------------------------------------------------------------
(* The state after construction. *)

NoFp == [p |-> <<>>, fd |-> 0, ret |-> "none", link |-> FALSE]
NoCall == [op |-> "none", root |-> <<>>, cand |-> <<>>, join |-> "none",
           recursive |-> FALSE, mode |-> 0]
NoRes == [ok |-> FALSE, h |-> NoHandle]

InitFrom(F) ==
    /\ fs \in F
    /\ fds = <<>>
    /\ builder = SafeDirBuilder_new(fs, ROOT).b
    /\ pc = "idle"
    /\ call = NoCall
    /\ path = <<>>
    /\ root = <<>>
    /\ suffix = <<>>
    /\ file = NoHandle
    /\ fp = NoFp
    /\ res = NoRes
    /\ held = {}
    /\ fs0 = fs
    /\ made = {}
    /\ calls = 0
    /\ atk = 0

Init == InitFrom(Fixtures)
InitRace == InitFrom(RaceFixtures)
InitLoop == InitFrom({FxLoop})

----------------------------------------------------------------------------
(* The calling thread. *)

\* An API call returns: Ok(h) hands the SafePathBuf to the caller.
Return(ok, h) ==
    /\ pc' = "idle"
    /\ res' = [ok |-> ok, h |-> h]
    /\ held' = IF ok THEN held \cup {h} ELSE held

\* An API call starts.
Start(op, R, c, j) ==
    /\ call' = [op |-> op, root |-> R, cand |-> c, join |-> j,
                recursive |-> builder.recursive, mode |-> builder.mode]
    /\ fs0' = fs
    /\ made' = {}
    /\ calls' = calls + 1

\* from_path(p) is entered; `ret` says where its result goes, and `link`
\* will record whether p named a symbolic link when it was opened.
Enter(p, ret) ==
    /\ fp' = [p |-> p, fd |-> 0, ret |-> ret, link |-> FALSE]
    /\ pc' = "fp_open"

\* new joining root and path as they are, without safe_join.
JoinedAsGiven(f, R, c) == Found(R \o c)

\* new, line 40: safe_join(root, path).
SafePath(f, R, c) == safe_join(f, R, c)

\* SafePathBuf::new(root, path): safe_join, then from_path.
New(R, c) ==
    /\ pc = "idle"
    /\ LET safe_path == SafePath(fs, R, c)
       IN  /\ Start("new", R, c, IF safe_path.err = "" THEN "ok" ELSE "err")
           /\ path' = safe_path.path
           /\ IF safe_path.err # ""
              THEN Return(FALSE, NoHandle) /\ fp' = NoFp
              ELSE Enter(safe_path.path, "api") /\ UNCHANGED <<res, held>>
    /\ UNCHANGED <<fs, fds, builder, root, suffix, file, atk>>

\* SafePathBuf::from_path(path), called by the user.
FromPath(p) ==
    /\ pc = "idle"
    /\ Start("from_path", <<>>, p, "none")
    /\ path' = p
    /\ Enter(p, "api")
    /\ UNCHANGED <<fs, fds, builder, root, suffix, file, res, held, atk>>

\* from_path, line 48: open_by_path(path)?.
FpOpen ==
    /\ pc = "fp_open"
    /\ LET o == open_by_path(fs, fp.p)
           n == FreshFd(fds)
       IN  IF o.err # ""
           THEN /\ Return(FALSE, NoHandle)
                /\ fp' = [fp EXCEPT !.link = IsLinkAt(fs, fp.p)]
                /\ UNCHANGED fds
           ELSE /\ fds' = (n :> o.entry) @@ fds
                /\ fp' = [fp EXCEPT !.fd = n, !.link = IsLinkAt(fs, fp.p)]
                /\ pc' = "fp_read"
                /\ UNCHANGED <<res, held>>
    /\ UNCHANGED <<fs, builder, call, path, root, suffix, file, fs0, made,
                   calls, atk>>

\* from_path, line 50: fs::read_link(&proc_path)? fails (the alias cannot be
\* read); the File is dropped and the error is returned.
FpReadFails ==
    /\ pc = "fp_read"
    /\ fds' = CloseFd(fds, fp.fd)
    /\ Return(FALSE, NoHandle)
    /\ UNCHANGED <<fs, builder, call, path, root, suffix, file, fp, fs0, made,
                   calls, atk>>

\* from_path without the comparison.
NeverDiffers(link_path, p) == FALSE

\* The comparison of from_path, line 52.
Differs(link_path, p) == link_path # p

\* from_path, lines 49-67: read the alias of the descriptor and compare.  On
\* a difference the File is dropped and the error goes to whoever called
\* from_path, who returns it (`?`); a SafePathBuf goes to the API's caller,
\* or into `file` when create called.
FpRead ==
    /\ pc = "fp_read"
    /\ LET link_path == DPath(fs, fds[fp.fd])
           h == SafePathBuf(fp.fd, link_path, fp.p, fds[fp.fd])
       IN  IF Differs(link_path, fp.p)
           THEN /\ fds' = CloseFd(fds, fp.fd)
                /\ Return(FALSE, NoHandle)
                /\ UNCHANGED file
           ELSE IF fp.ret = "api"
           THEN /\ Return(TRUE, h)
                /\ UNCHANGED <<fds, file>>
           ELSE /\ file' = h
                /\ pc' = IF fp.ret = "loop" THEN "loop_is_dir" ELSE "final_is_dir"
                /\ UNCHANGED <<fds, res, held>>
    /\ UNCHANGED <<fs, builder, call, path, root, suffix, fp, fs0, made,
                   calls, atk>>

\* create with the default mode in the place of the configured one.
CreateModeDefault(b) == DIRECTORY_MODE_DEFAULT

\* The mode create gives DirBuilder, line 91.
CreateMode(b) == b.mode

\* create without `root = root.join(parent)`.
WalkRootUnjoined(b, p) == b.root

\* create, lines 73-79: where the walk starts.  Without `recursive` it is
\* root.join(parent), and the join of the absolute `parent` is `parent`.
WalkRoot(b, p) == IF b.recursive THEN b.root ELSE Front(p)

\* create, lines 73-79: the components the walk creates.
WalkSuffix(b, suf) == IF b.recursive THEN suf ELSE <<Last(suf)>>

\* create joining the candidate onto the builder's root.
CreateJoinRoot(f, b, c) == safe_join(f, b.root, c)

\* create, line 63: safe_join("/", path).
CreateJoin(f, b, c) == safe_join(f, <<>>, c)

\* SafeDirBuilder::create(path), lines 62-79: resolve, strip the root, and
\* set up the walk.
Create(c) ==
    /\ pc = "idle"
    /\ LET j == CreateJoin(fs, builder, c)
           inside == j.err = "" /\ IsPrefix(builder.root, j.path)
           suf == strip_prefix(j.path, builder.root)
       IN  /\ Start("create", builder.root, c,
                    IF j.err = "" THEN "ok" ELSE "err")
           /\ path' = j.path
           /\ IF ~inside
              THEN /\ Return(FALSE, NoHandle)
                   /\ UNCHANGED <<root, suffix, fp>>
              ELSE IF suf = <<>>
              THEN /\ Enter(builder.root, "api")
                   /\ root' = builder.root
                   /\ suffix' = suf
                   /\ UNCHANGED <<res, held>>
              ELSE /\ root' = WalkRoot(builder, j.path)
                   /\ suffix' = WalkSuffix(builder, suf)
                   /\ Enter(root', "loop")
                   /\ UNCHANGED <<res, held>>
    /\ UNCHANGED <<fs, fds, builder, file, atk>>

\* create, line 83: file.target().is_dir().
LoopIsDir ==
    /\ pc = "loop_is_dir"
    /\ IF ~is_dir(fs, file)
       THEN /\ Return(FALSE, NoHandle)
            /\ fds' = CloseFd(fds, file.fd)
            /\ file' = NoHandle
       ELSE /\ pc' = "loop_mkdir"
            /\ UNCHANGED <<fds, file, res, held>>
    /\ UNCHANGED <<fs, builder, call, path, root, suffix, fp, fs0, made,
                   calls, atk>>

\* create, lines 89-94: join the component, create the directory, and end
\* the iteration, which drops `file`; then the next from_path, of the loop
\* or the one of line 96.
LoopMkdir ==
    /\ pc = "loop_mkdir"
    /\ LET r == create_dir_all(fs, Append(root, Head(suffix)),
                               CreateMode(builder), fds)
       IN  /\ root' = Append(root, Head(suffix))
           /\ fs' = r.fs
           /\ made' = made \cup r.made
           /\ fds' = CloseFd(fds, file.fd)
           /\ file' = NoHandle
           /\ IF r.err # ""
              THEN /\ Return(FALSE, NoHandle)
                   /\ UNCHANGED <<suffix, fp>>
              ELSE /\ suffix' = Tail(suffix)
                   /\ Enter(root', IF suffix' = <<>> THEN "final" ELSE "loop")
                   /\ UNCHANGED <<res, held>>
    /\ UNCHANGED <<builder, call, path, fs0, calls, atk>>

\* The final check with its condition inverted.
FinalIsDirInverted ==
    /\ pc = "final_is_dir"
    /\ IF is_dir(fs, file)
       THEN /\ Return(FALSE, NoHandle)
            /\ fds' = CloseFd(fds, file.fd)
       ELSE /\ Return(TRUE, file)
            /\ UNCHANGED fds
    /\ file' = NoHandle
    /\ UNCHANGED <<fs, builder, call, path, root, suffix, fp, fs0, made,
                   calls, atk>>

\* create, lines 97-104: result.target().is_dir(), and Ok(result).
FinalIsDir ==
    /\ pc = "final_is_dir"
    /\ IF ~is_dir(fs, file)
       THEN /\ Return(FALSE, NoHandle)
            /\ fds' = CloseFd(fds, file.fd)
       ELSE /\ Return(TRUE, file)
            /\ UNCHANGED fds
    /\ file' = NoHandle
    /\ UNCHANGED <<fs, builder, call, path, root, suffix, fp, fs0, made,
                   calls, atk>>

\* SafeDirBuilder::recursive().
SetRecursive ==
    /\ pc = "idle"
    /\ ~builder.recursive
    /\ builder' = [builder EXCEPT !.recursive = TRUE]
    /\ UNCHANGED <<fs, fds, pc, call, path, root, suffix, file, fp, res, held,
                   fs0, made, calls, atk>>

\* SafeDirBuilder::mode(m).
SetMode(m) ==
    /\ pc = "idle"
    /\ builder.mode # mode(m)
    /\ builder' = [builder EXCEPT !.mode = mode(m)]
    /\ UNCHANGED <<fs, fds, pc, call, path, root, suffix, file, fp, res, held,
                   fs0, made, calls, atk>>

\* SafeDirBuilder::new(r), lines 27-41: the caller's builder becomes the new
\* one when new returns Ok, and stays the one it has when new returns Err.
BuilderNew(r) ==
    /\ pc = "idle"
    /\ LET n == SafeDirBuilder_new(fs, r)
       IN  /\ Start("builder_new", r, <<>>, "none")
           /\ builder' = IF n.err = "" THEN n.b ELSE builder
           /\ res' = [ok |-> n.err = "", h |-> NoHandle]
    /\ UNCHANGED <<fs, fds, pc, path, root, suffix, file, fp, held, atk>>

\* The caller drops a SafePathBuf: its File closes the descriptor.
Drop(h) ==
    /\ pc = "idle"
    /\ h \in held
    /\ held' = held \ {h}
    /\ fds' = CloseFd(fds, h.fd)
    /\ UNCHANGED <<fs, builder, pc, call, path, root, suffix, file, fp, res,
                   fs0, made, calls, atk>>

----------------------------------------------------------------------------
(* The concurrent process of test_safe_path_race: it removes entries and   *)
(* puts links, files and directories in their place.                       *)

AtkFrame ==
    /\ atk' = atk + 1
    /\ UNCHANGED <<fds, builder, pc, call, path, root, suffix, file, fp, res,
                   held, fs0, made, calls>>

CanCreate(p) == p \notin DOMAIN fs /\ Front(p) \in DOMAIN fs
                /\ fs[Front(p)].kind = "dir"

\* fs::remove_file / fs::remove_dir.
AtkRemove(p) ==
    /\ p \in DOMAIN fs
    /\ ~HasChildren(fs, p)
    /\ fs' = Without(fs, p)
    /\ AtkFrame

\* symlink(t, p).
AtkSymlink(p, t) ==
    /\ CanCreate(p)
    /\ fs' = (p :> Link(FreshId(fs, fds), t.abs, t.comps)) @@ fs
    /\ AtkFrame

\* fs::write(p, "new").
AtkWrite(p) ==
    /\ CanCreate(p)
    /\ fs' = (p :> RegFile(FreshId(fs, fds), "new")) @@ fs
    /\ AtkFrame

\* fs::create_dir(p).
AtkMkdir(p) ==
    /\ CanCreate(p)
    /\ fs' = (p :> Dir(FreshId(fs, fds), 493)) @@ fs
    /\ AtkFrame

Attack ==
    /\ atk < MaxAttack
    /\ \E p \in AtkPaths :
          \/ AtkRemove(p)
          \/ \E t \in AtkTargets : AtkSymlink(p, t)
          \/ AtkWrite(p)
          \/ AtkMkdir(p)

----------------------------------------------------------------------------
(* The specifications. *)

\* The concurrent process replaces the entry at the final path of create: it
\* removes it and puts a file or a directory in its place.
Swap ==
    /\ atk < MaxSwap
    /\ \E p \in SwapPaths :
          \/ AtkRemove(p)
          \/ AtkWrite(p)
          \/ AtkMkdir(p)

\* A step inside an API call.
Step == FpOpen \/ FpRead \/ LoopIsDir \/ LoopMkdir \/ FinalIsDir

\* The calling thread alone: nothing else touches the filesystem.
Next ==
    \/ calls < MaxCalls /\ \E R \in Roots : \E c \in NewCands : New(R, c)
    \/ calls < MaxCalls /\ \E p \in FromPaths : FromPath(p)
    \/ calls < MaxCalls /\ \E c \in CreateCands : Create(c)
    \/ Step
    \/ SetRecursive
    \/ \E m \in Modes : SetMode(m)
    \/ \E h \in held : Drop(h)

Spec == Init /\ [][Next]_vars

\* One thread against the concurrent process.
NextRace ==
    \/ calls < MaxCalls /\ \E c \in RaceNewCands : New(ROOT, c)
    \/ calls < MaxCalls /\ \E p \in RaceFromPaths : FromPath(p)
    \/ calls < MaxCalls /\ \E c \in RaceCreateCands : Create(c)
    \/ Step
    \/ SetRecursive
    \/ \E h \in held : Drop(h)
    \/ Attack

SpecRace == InitRace /\ [][NextRace]_vars

\* The calling thread against the concurrent process, where reading the
\* alias of a descriptor can fail.
NextFd ==
    \/ calls < MaxCalls /\ \E p \in FdFromPaths : FromPath(p)
    \/ calls < MaxCalls /\ \E c \in RaceCreateCands : Create(c)
    \/ Step
    \/ FpReadFails
    \/ SetRecursive
    \/ \E h \in held : Drop(h)
    \/ Attack

SpecFd == InitRace /\ [][NextFd]_vars

InitSwap == InitFrom({FxEmptyDir})

\* create against a process that swaps the entry at its final path.
NextSwap ==
    \/ calls < MaxCalls /\ \E c \in SwapCreateCands : Create(c)
    \/ Step
    \/ \E h \in held : Drop(h)
    \/ Swap

SpecSwap == InitSwap /\ [][NextSwap]_vars

\* The builder alone: it is constructed and configured.
NextBuilder ==
    \/ calls < MaxCalls /\ \E r \in BuilderRoots : BuilderNew(r)
    \/ SetRecursive
    \/ \E m \in ModeInputs : SetMode(m)

SpecBuilder == Init /\ [][NextBuilder]_vars

\* SafePathBuf::new and from_path over the cycle and the chain of links.
NextResolve ==
    \/ calls < MaxCalls /\ \E c \in LoopCands : New(ROOT, c)
    \/ calls < MaxCalls /\ \E p \in LoopFromPaths : FromPath(p)
    \/ FpOpen
    \/ FpRead
    \/ \E h \in held : Drop(h)

SpecResolve == InitLoop /\ [][NextResolve]_vars

----------------------------------------------------------------------------
(* What the claims speak of. *)

Done(op) == pc = "idle" /\ call.op = op

\* The last call is a create whose candidate resolved to a path under the
\* builder's root, other than the root itself.
CreateBelowRoot ==
    /\ call.op = "create"
    /\ call.join = "ok"
    /\ IsPrefix(call.root, path)
    /\ path # call.root

\* The levels of the resolved target under the root: root/c1 .. root/c1/../cn.
TargetLevels == Levels(path, Len(call.root))

\* The levels before the last one.
ParentLevels == Levels(Front(path), Len(call.root))

IsDirIn(f, p) == p \in DOMAIN f /\ f[p].kind = "dir"

PlainNames(s) == \A i \in 1 .. Len(s) : s[i] \notin {".", ".."}

\* No entry on the way to p, or p itself, is a symbolic link.
NoLinkOn(f, p) == \A i \in 1 .. Len(p) : ~IsLinkAt(f, SubSeq(p, 1, i))

----------------------------------------------------------------------------
(* C1: a successful safe_join(R, C), as SafePathBuf::new calls it, returns  *)
(* a path equal to the (canonical) root R or nested under it, whatever      *)
(* ".." components and links C runs through; so does the target of the      *)
(* SafePathBuf that new returns.                                            *)
C1_Containment ==
    (call.op = "new" /\ call.join = "ok") =>
        /\ IsPrefix(RealPath(fs0, call.root).path, path)
        /\ (Done("new") /\ res.ok) => IsPrefix(call.root, target(res.h))

\* new(ROOT, "up") through the link up -> ../../o stays under the root.
C1_Witness ==
    /\ call.op = "new" /\ call.join = "ok"
    /\ call.root = ROOT /\ call.cand = <<"up">>
    /\ IsLinkAt(fs0, <<"r", "up">>)
    /\ path = <<"r", "o">>

(* C2: from_path(p) returns a SafePathBuf only if the path read through     *)
(* /proc/self/fd/N equals p; and when p names a symbolic link at the time   *)
(* from_path opens it (the concurrent process put it there after safe_join  *)
(* computed p), from_path returns an error and no SafePathBuf.              *)
C2_RealPathChecked ==
    /\ \A h \in held \cup ({file} \ {NoHandle}) : target(h) = h.req
    /\ (pc = "idle" /\ call.op \in {"new", "from_path"} /\ fp.link) =>
           (~res.ok /\ res.h = NoHandle)

\* new(ROOT, "s") resolved to /r/a; /r/a was then replaced by a link, was
\* opened, and from_path failed on the comparison.
C2_Witness ==
    /\ Done("new") /\ call.join = "ok"
    /\ ~IsLinkAt(fs0, path)
    /\ fp.link /\ fp.fd # 0
    /\ ~res.ok

(* C3: while the caller holds a SafePathBuf, the path it is used as (its    *)
(* /proc/self/fd/N alias) names the entry that was opened and validated, and*)
(* reading through it returns that entry's content, whatever was removed or *)
(* put in place of the original name since.                                 *)
C3_AliasStable ==
    \A h \in held :
        /\ EntryAt(fs, fds, Deref(h)).id = h.ino
        /\ read_to_string(fs, fds, Deref(h)) = h.data

\* The caller holds a SafePathBuf of a file whose name is now a link to
\* another file with another content.
C3_Witness ==
    \E h \in held :
        /\ h.data # ""
        /\ IsLinkAt(fs, target(h))
        /\ read_to_string(fs, fds, target(h)) \notin {"", h.data}
        /\ read_to_string(fs, fds, Deref(h)) = h.data

(* C4: every directory a create call makes lies under the builder's root,   *)
(* in every interleaving with the concurrent process.                       *)
C4_CreatedUnderRoot ==
    call.op = "create" => \A p \in made : IsPrefix(call.root, p)

(* C5: a candidate that runs through a link under R with the absolute       *)
(* target /x resolves to R/x (and what follows the link in the candidate),  *)
(* not to /x; the SafePathBuf that new returns has that target.             *)
C5_AbsoluteLinkRerooted ==
    (call.op = "new" /\ call.join = "ok" /\ PlainNames(call.cand)) =>
        \A k \in 1 .. Len(call.cand) :
            LET l == call.root \o SubSeq(call.cand, 1, k)
                rest == SubSeq(call.cand, k + 1, Len(call.cand))
                x == fs0[l].tgt.comps \o rest
            IN  (/\ IsLinkAt(fs0, l) /\ fs0[l].tgt.abs
                 /\ NoLinkOn(fs0, Front(l))
                 /\ PlainNames(x) /\ NoLinkOn(fs0, call.root \o x)) =>
                    /\ path = call.root \o x
                    /\ path # x
                    /\ (Done("new") /\ res.ok) =>
                           target(res.h) = call.root \o x

\* new(R, "d/e") with d/e -> /x returned the SafePathBuf of R/x, whose
\* content is the rootfs's, not the host's /x.
C5_Witness ==
    /\ Done("new") /\ res.ok
    /\ call.root = ROOT /\ call.cand = <<"d", "e">>
    /\ IsLinkAt(fs0, <<"r", "d", "e">>)
    /\ fs0[<<"r", "d", "e">>].tgt = [abs |-> TRUE, comps |-> <<"x">>]
    /\ target(res.h) = <<"r", "x">>
    /\ res.h.data = "test"
    /\ fs[<<"x">>].data = "host"

(* C6: without `recursive` and with nothing else changing the filesystem,   *)
(* create fails and creates nothing when a level before the last is missing *)
(* or is no directory; when every level before the last is a directory and  *)
(* the last is missing, create succeeds and the last level is a directory.  *)
C6_NonRecursive ==
    (CreateBelowRoot /\ ~call.recursive) =>
        IF \E l \in ParentLevels : ~IsDirIn(fs0, l)
        THEN /\ fs = fs0 /\ made = {}
             /\ pc = "idle" => ~res.ok
        ELSE (pc = "idle" /\ path \notin DOMAIN fs0) =>
                 /\ res.ok
                 /\ IsDirIn(fs, path)
                 /\ target(res.h) = path

\* create(root/a/b) succeeded with the directory root/a there and root/a/b
\* missing, and made root/a/b with the default mode.
C6_Witness ==
    /\ CreateBelowRoot /\ ~call.recursive /\ pc = "idle"
    /\ call.cand = <<"r", "a", "b">>
    /\ IsDirIn(fs0, <<"r", "a">>)
    /\ <<"r", "a", "b">> \notin DOMAIN fs0
    /\ res.ok
    /\ IsDirIn(fs, <<"r", "a", "b">>)
    /\ made = {<<"r", "a", "b">>}

(* C7: without `recursive`, create returns an error whenever the target     *)
(* already exists, a directory included.                                    *)
C7_ExistingTargetFails ==
    (CreateBelowRoot /\ ~call.recursive /\ pc = "idle"
     /\ path \in DOMAIN fs0) => ~res.ok

(* C8: with `recursive` and nothing else changing the filesystem, after a   *)
(* successful create every level of the target is a directory, and every    *)
(* level that was missing before the call has the builder's mode.           *)
C8_RecursiveCreatesAll ==
    (CreateBelowRoot /\ call.recursive /\ pc = "idle" /\ res.ok) =>
        \A l \in TargetLevels :
            /\ IsDirIn(fs, l)
            /\ l \notin DOMAIN fs0 => fs[l].mode = call.mode

\* create(root/a/b/c) with mode 0o740 made all three levels.
C8_Witness ==
    /\ CreateBelowRoot /\ call.recursive /\ pc = "idle" /\ res.ok
    /\ call.cand = <<"r", "a", "b", "c">>
    /\ call.mode = 480
    /\ <<"r", "a">> \notin DOMAIN fs0
    /\ \A l \in TargetLevels : fs[l].mode = 480

(* C9: with `recursive` and nothing else changing the filesystem, create    *)
(* fails when a level of the target, the last included, exists and is no    *)
(* directory, and it creates nothing at or below that level.                *)
C9_NonDirectoryBlocks ==
    (CreateBelowRoot /\ call.recursive) =>
        \A l \in TargetLevels :
            (l \in DOMAIN fs0 /\ fs0[l].kind # "dir") =>
                /\ pc = "idle" => ~res.ok
                /\ \A q \in DOMAIN fs : IsPrefix(l, q) =>
                       (q \in DOMAIN fs0 /\ fs[q] = fs0[q])
                /\ \A q \in made : ~IsPrefix(l, q)

\* create(root/a/txt/h) failed on the file root/a/txt.
C9_Witness ==
    /\ CreateBelowRoot /\ call.recursive /\ pc = "idle"
    /\ call.cand = <<"r", "a", "txt", "h">>
    /\ <<"r", "a", "txt">> \in DOMAIN fs0
    /\ fs0[<<"r", "a", "txt">>].kind = "file"
    /\ ~res.ok
    /\ fp.p = <<"r", "a">>

(* C10: with `recursive` and nothing else changing the filesystem, every    *)
(* directory that existed before a create call is there after it, with the  *)
(* type and the mode it had.                                                *)
C10_ExistingUntouched ==
    (call.op = "create" /\ call.recursive) =>
        \A l \in DOMAIN fs0 :
            fs0[l].kind = "dir" => (l \in DOMAIN fs /\ fs[l] = fs0[l])

\* create(root/a/b) with mode 0o740 went through root/a, made with 0o700.
C10_Witness ==
    /\ CreateBelowRoot /\ call.recursive /\ pc = "idle" /\ res.ok
    /\ call.cand = <<"r", "a", "b">>
    /\ call.mode = 480
    /\ IsDirIn(fs0, <<"r", "a">>)
    /\ fs0[<<"r", "a">>].mode = DIRECTORY_MODE_DEFAULT
    /\ fs[<<"r", "a">>].mode = DIRECTORY_MODE_DEFAULT
    /\ fs[<<"r", "a", "b">>].mode = 480

(* C11: a create whose candidate resolves to the builder's root itself      *)
(* (root/.) makes no directory and changes nothing, with `recursive` and    *)
(* without it, and returns the SafePathBuf of the root.                     *)
C11_RootItself ==
    (call.op = "create" /\ call.join = "ok" /\ path = call.root) =>
        /\ fs = fs0 /\ made = {}
        /\ pc = "idle" => (res.ok /\ target(res.h) = call.root
                           /\ res.h.ino = fs[call.root].id)

\* create(root/.) returned the root, once without `recursive` and once
\* with it.
C11_Witness ==
    /\ Done("create") /\ call.cand = <<"r", ".">> /\ call.recursive
    /\ res.ok /\ target(res.h) = ROOT /\ fs = fs0
    /\ \E h \in held : h # res.h /\ target(h) = ROOT

\* The number of links on the chain that starts at p, every link naming an
\* entry beside itself; a cycle counts as many links as `fuel`.
RECURSIVE Hops(_, _, _)
Hops(f, p, fuel) ==
    IF fuel = 0 \/ ~IsLinkAt(f, p) THEN 0
    ELSE 1 + Hops(f, Append(Front(p), Head(f[p].tgt.comps)), fuel - 1)

\* More links than any chain without a cycle has.
Fuel(f) == Cardinality(DOMAIN f) + 1

(* C12: safe_join, as SafePathBuf::new calls it, returns an error and no    *)
(* path when the candidate's first component starts a cycle of links or a   *)
(* chain of more links than the expansion bound; a chain within the bound   *)
(* resolves to its end; and no path it returns names or runs through a link.*)
C12_LoopFails ==
    (call.op = "new" /\ PlainNames(call.cand)) =>
        LET n == Hops(fs0, Append(call.root, Head(call.cand)), Fuel(fs0))
        IN  /\ n > MaxSymlinks =>
                (call.join = "err" /\ path = <<>> /\ pc = "idle"
                 /\ ~res.ok /\ res.h = NoHandle)
            /\ (n <= MaxSymlinks /\ Len(call.cand) = 1) => call.join = "ok"
            /\ call.join = "ok" => NoLinkOn(fs0, path)

\* new(root, "a") failed on the cycle a -> b -> a, after new(root, c)
\* had resolved a chain of exactly as many links as the bound allows.
C12_Witness ==
    /\ Done("new") /\ call.cand = <<"a">> /\ call.join = "err" /\ ~res.ok
    /\ fs0[<<"r", "a">>].tgt.comps = <<"b">>
    /\ fs0[<<"r", "b">>].tgt.comps = <<"a">>
    /\ \E h \in held :
          /\ target(h) = <<"r", "f">>
          /\ h.data = "test"

C14_ResolvedFromSlash ==
    call.op = "create" =>
        /\ (PlainNames(call.cand) /\ NoLinkOn(fs0, call.cand)) =>
               (call.join = "ok" /\ path = call.cand)
        /\ (call.join = "ok" /\ ~IsPrefix(call.root, path)) =>
               (pc = "idle" /\ ~res.ok /\ fs = fs0 /\ made = {})

\* create("a") resolved to /a and was rejected, with the root /r there and
\* /r/a missing.
C14_Witness ==
    /\ Done("create") /\ call.cand = <<"a">> /\ call.root = ROOT
    /\ path = <<"a">>
    /\ <<"r", "a">> \notin DOMAIN fs
    /\ ~res.ok /\ fs = fs0

(* C14 as the specification states it: the path create works on is the      *)
(* candidate resolved against the builder's root, so that every candidate   *)
(* is mapped into the root.                                                 *)
C14_ResolvedAgainstRoot ==
    call.op = "create" =>
        LET j == safe_join(fs0, call.root, call.cand)
        IN  j.err = "" => (call.join = "ok" /\ path = j.path)

(* C15: whenever create returns Ok, the SafePathBuf's target is the         *)
(* resolved target path and the entry its descriptor is bound to is a       *)
(* directory, however the concurrent process replaces the entry at the      *)
(* final path around the final from_path and is_dir.                        *)
C15_HandleIsDirectory ==
    (Done("create") /\ res.ok /\ res.h \in held) =>
        /\ target(res.h) = path
        /\ fds[res.h.fd].kind = "dir"

(* C16: in a create call, the calling thread changes the filesystem only in *)
(* the step that creates root/c (DirBuilder's create of the accumulated     *)
(* path joined with the next component); that step comes straight after the *)
(* is_dir check that found the accumulated path `root` a directory, which   *)
(* comes straight after the from_path that opened `root` and read `root`    *)
(* back; when the open, the comparison or the is_dir check fails, the call  *)
(* returns an error in that step, without creating anything.                *)
C16_ValidatedBeforeMkdir ==
    [][/\ (fs' # fs /\ atk' = atk) =>
              /\ pc = "loop_mkdir" /\ calls' = calls
              /\ file # NoHandle /\ file.fd \in DOMAIN fds
              /\ file.req = root /\ target(file) = root
              /\ root' = Append(root, Head(suffix))
       /\ (pc' = "loop_mkdir" /\ pc # pc') =>
              /\ pc = "loop_is_dir"
              /\ PathIsDir(fs, target(file))
              /\ file' = file /\ root' = root
       /\ (pc' = "loop_is_dir" /\ pc # pc') =>
              /\ pc = "fp_read" /\ fp.ret = "loop" /\ fp.p = root
              /\ DPath(fs, fds[fp.fd]) = root
              /\ file'.req = root /\ file'.fd = fp.fd
       /\ (pc # pc' /\ call.op = "create" /\ fp.ret = "loop"
           /\ \/ pc = "fp_open" /\ open_by_path(fs, fp.p).err # ""
              \/ pc = "fp_read" /\ DPath(fs, fds[fp.fd]) # fp.p
              \/ pc = "loop_is_dir" /\ ~PathIsDir(fs, target(file))) =>
              /\ pc' = "idle" /\ ~res'.ok
              /\ fs' = fs /\ made' = made]_vars

\* A create with `recursive` has made root/a and root/a/b, each creation
\* step after the validation of the level before, and is about to open the
\* final path.
C16_Witness ==
    /\ call.op = "create" /\ call.recursive
    /\ made = {<<"r", "a">>, <<"r", "a", "b">>}
    /\ pc = "fp_open" /\ fp.ret = "final" /\ fp.p = <<"r", "a", "b">>
    /\ root = <<"r", "a", "b">>

\* The SafePathBufs alive: the caller's and create's `file`.
Live == held \cup ({file} \ {NoHandle})

\* The descriptor of the File from_path has opened and not yet wrapped.
InFlight == IF pc = "fp_read" THEN {fp.fd} ELSE {}

(* C17: the open descriptors are those of the live SafePathBufs, one each,  *)
(* and the one from_path has just opened: after from_path fails (the alias  *)
(* cannot be read, or the path read back differs) its descriptor is closed, *)
(* after a SafePathBuf is dropped its descriptor is closed, and no          *)
(* descriptor of a live SafePathBuf is closed or handed to another.         *)
C17_DescriptorOwned ==
    /\ DOMAIN fds = {h.fd : h \in Live} \cup InFlight
    /\ \A h1, h2 \in Live : h1.fd = h2.fd => h1 = h2
    /\ \A h \in Live : h.fd \notin InFlight /\ fds[h.fd].id = h.ino
    /\ pc = "idle" => (file = NoHandle /\ DOMAIN fds = {h.fd : h \in held})

\* from_path opened a descriptor and failed; the descriptor is closed and
\* the one of the SafePathBuf the caller holds is open.
C17_Witness ==
    /\ Done("from_path") /\ ~res.ok
    /\ fp.fd # 0 /\ fp.fd \notin DOMAIN fds
    /\ \E h \in held : h.fd # fp.fd /\ h.fd \in DOMAIN fds

\* The bitwise AND of two naturals, bit by bit.
RECURSIVE BitAnd(_, _)
BitAnd(x, y) ==
    IF x = 0 \/ y = 0 THEN 0
    ELSE (x % 2) * (y % 2) + 2 * BitAnd(x \div 2, y \div 2)

(* C18: after mode(m) the builder's mode is m AND 0o777, whatever bits m    *)
(* has above the permission bits, and its root and recursive are what they  *)
(* were.                                                                    *)
C18_ModeMasked ==
    [][\A m \in ModeInputs : SetMode(m) =>
          /\ builder'.mode = BitAnd(m, 511)
          /\ builder'.mode \in 0 .. 511
          /\ builder'.root = builder.root
          /\ builder'.recursive = builder.recursive]_vars

\* mode(0o4755) on a recursive builder rooted at /o left it recursive and
\* rooted at /o, with the mode 0o755.
C18_Witness ==
    /\ builder = [root |-> <<"o">>, mode |-> 493, recursive |-> TRUE]
    /\ 493 = BitAnd(2541, DIRECTORY_MODE_MASK)
    /\ 493 \notin {mode(m) : m \in ModeInputs \ {2541}}

(* C19: without `recursive` and with nothing else changing the filesystem,  *)
(* a create call that returns an error has made no directory and has left   *)
(* the filesystem as it was when the call started.                          *)
C19_ErrorLeavesNothing ==
    (Done("create") /\ ~call.recursive /\ ~res.ok) =>
        (fs = fs0 /\ made = {})

\* create(root/txt) failed in DirBuilder's create, on the file root/txt,
\* after the root was validated; nothing changed.
C19_Witness ==
    /\ Done("create") /\ ~call.recursive /\ ~res.ok
    /\ call.cand = <<"r", "txt">>
    /\ root = <<"r", "txt">> /\ fp.p = <<"r">> /\ fp.fd # 0
    /\ fs = fs0

====
